---- MODULE Spec2Model ----
(***************************************************************************)
(* Model of the Hodor deployer (package deployer, FileDeployer): the job   *)
(* channel, the Deploy callers, the single processJobs worker, handleJob's *)
(* install steps on the file system, the buntdb status store, and Stop.    *)
(***************************************************************************)
EXTENDS Naturals, Sequences, FiniteSets, TLC

\* ------------------------------------------------------------------ bounds
\* number of job ids (xid values) generated in a run
MaxJobs == 2
\* number of job ids generated in a run of the backpressure specification
MaxJobsBP == 52
\* the calls of HookHTTP.Stop in a run
MaxStops == 2

\* ------------------------------------------------------ program constants
\* const jobSize = 50: the capacity of the job channel
jobSize == 50

\* ------------------------------------------------------------------ inputs
\* the goroutines that call Deploy concurrently
Callers == {"c1", "c2"}

\* config.Config.Entries: release key -> target folder ("kx" is not mapped)
Entries == [k \in {"k1", "k2"} |-> IF k = "k1" THEN "p1" ELSE "p2"]
ReleaseIDs == {"k1", "k2", "kx"}
Targets == {"p1", "p2"}

\* tar headers: a directory or a regular file with its bytes
DirEntry(name) == [name |-> name, typ |-> "dir", data |-> <<>>]
RegEntry(name, data) == [name |-> name, typ |-> "reg", data |-> data]

\* the tar served at each release URL
ArchiveA ==
    << DirEntry(<<"r">>), RegEntry(<<"r", "a">>, <<1>>), RegEntry(<<"r", "b">>, <<2>>) >>
ArchiveB ==
    << DirEntry(<<"r">>), RegEntry(<<"r", "a">>, <<3>>) >>
ArchiveFile ==
    << RegEntry(<<"x">>, <<1>>) >>
URLs == {"uA", "uB", "uFile"}
Body(u) ==
    CASE u = "uA" -> ArchiveA
      [] u = "uB" -> ArchiveB
      [] OTHER -> ArchiveFile

\* ------------------------------------------------------------------ values
NoErr == <<>>
NoJob == [id |-> 0, releaseID |-> "", releaseURL |-> "", tag |-> ""]
\* a path with nothing at it (a tree always holds its own folder, <<>>)
NoDir == [p \in {} |-> [typ |-> "dir", data |-> <<>>]]
\* the buntdb store with no key
EmptyDB == [k \in {} |-> [Status |-> "", Message |-> <<>>]]
JobStatus(status, message) == [Status |-> status, Message |-> message]
\* the store with no tag record
EmptyTags == [k \in {} |-> ""]

\* fmt.Errorf("<what>: %v", err)
Wrap(what, err) == <<what>> \o err

VARIABLES
    jobs,       \* fd.jobs: [state: "nil" | "open" | "closed", buf: queued jobs]
    stop,       \* fd.stop
    db,         \* the buntdb store: job id -> JobStatus, NoEntry when no key
    disk,       \* the target folders: path -> tree, NoDir when absent
    tmp,        \* the scratch folder of the running handleJob, NoDir when none
    nextId,     \* the next xid
    cpc,        \* per caller: its position in Deploy
    cjob,       \* per caller: the job its Deploy call built
    cret,       \* per caller: the error of its last Deploy call
    wpc,        \* the goroutine that calls Start: its position
    wjob,       \* the job taken by the range loop
    werr,       \* the error handleJob returns
    wroot,      \* tarRootFolder
    spc,        \* the goroutine that calls Stop: its position
    tags,       \* the tag records of the store: release key -> latest tag
    hpc,        \* per caller: the position of its hook handler
    hreq,       \* per caller: the request its hook handler got last
    hresp,      \* per caller: the HTTP status its hook handler answered last
    polled,     \* per job id: what the last GetStatus call on it returned
    srv,        \* HookHTTP: the positions of Start and of its goroutine, Stop calls
    returned,   \* history: the job ids Deploy returned to its callers
    enqueued,   \* history: the job ids in the order they entered the channel
    dequeued,   \* history: the job ids in the order the range loop took them
    started,    \* history: [id, releaseID] of the jobs in the order handleJob was called
    fetched,    \* history: the job ids for which client.Get was called
    installing, \* history: jobs whose handleJob started, terminal save pending
    result,     \* history: job id -> what handleJob returned, and whether
                \*          the save of the terminal status went through
    writes,     \* history: job id -> the statuses stored under it, in order
    before,     \* history: the target folders as the running handleJob found them
    lastOk,     \* history: release key -> URL of its last install that returned nil
    early,      \* history: the job ids generated before Start made the channel
    wlate,      \* history: the job the worker holds was taken from the channel
                \*          after Stop closed it
    tagged,     \* history: job id -> whether the write of its tag went through
    lastSwap    \* history: release key -> outcome of its last install that
                \*          reached os.RemoveAll: the URL, or "failed"

vars == << jobs, stop, db, tags, hpc, hreq, hresp, polled, srv, disk, tmp, nextId, cpc, cjob, cret, wpc, wjob, werr,
           wroot, spc, returned, enqueued, dequeued, started, fetched, installing,
           result, writes, before, lastOk, lastSwap, tagged, wlate, early >>

\* the environment of a run: the arguments the callers pass to Deploy, the
\* number of job ids, and whether the store, the network and the file system
\* may fail (oks = {TRUE} is an environment that never fails)
Env == [callers |-> Callers, releaseIDs |-> ReleaseIDs, urls |-> URLs, max |-> MaxJobs,
        oks |-> BOOLEAN, faults |-> {"none", "gzip", "mkroot", "next"}, tags |-> {""}]
\* the environment of the backpressure runs: one caller submitting one
\* release with one valid archive, often enough to fill the channel
EnvBP == [callers |-> {"c1"}, releaseIDs |-> {"k1"}, urls |-> {"uA"}, max |-> MaxJobsBP,
          oks |-> {TRUE}, faults |-> {"none"}, tags |-> {""}]
\* the environment of the runs with tags: Deploy(releaseKey, sourceURL, tag)
\* with a valid archive or one whose first entry is a file
Tags == {"", "v1", "v2"}
EnvTag == [callers |-> Callers, releaseIDs |-> {"k1", "k2"}, urls |-> {"uA", "uFile"},
           max |-> MaxJobs, oks |-> BOOLEAN, faults |-> {"none"}, tags |-> Tags]

\* ---------------------------------------------------------- the file system
\* a tree is a function: path below the folder -> [typ, data]; <<>> is the
\* folder itself
EmptyTree == (<<>> :> [typ |-> "dir", data |-> <<>>])

IsPrefix(r, p) == Len(r) <= Len(p) /\ SubSeq(p, 1, Len(r)) = r
Prefixes(p) == { SubSeq(p, 1, n) : n \in 0..Len(p) }
Parent(p) == SubSeq(p, 1, Len(p) - 1)

\* os.MkdirAll(path, 0755): creates the folder and its missing parents; fails
\* when a file is in the way
MkdirAll(tree, p) ==
    IF \E q \in Prefixes(p) : q \in DOMAIN tree /\ tree[q].typ # "dir"
    THEN [err |-> <<"not a directory">>, tree |-> tree]
    ELSE [err |-> NoErr,
          tree |-> [q \in DOMAIN tree \cup Prefixes(p) |->
                      IF q \in DOMAIN tree THEN tree[q]
                      ELSE [typ |-> "dir", data |-> <<>>]]]

\* faulty variant: the bytes of the archive are not copied into the file
Overwrite_skip(old, new) == old

\* io.Copy into a file opened with O_CREATE|O_RDWR (no O_TRUNC): the new bytes
\* replace the first bytes of the file, a longer old tail stays
Overwrite(old, new) ==
    IF Len(old) > Len(new) THEN new \o SubSeq(old, Len(new) + 1, Len(old)) ELSE new

\* untar: walks the remaining headers; fault = "next" makes tr.Next() fail
RECURSIVE untar(_, _, _)
untar(tree, entries, fault) ==
    IF fault = "next" THEN [err |-> <<"failed to get next", "unexpected EOF">>, tree |-> tree]
    ELSE IF entries = <<>> THEN [err |-> NoErr, tree |-> tree]
    ELSE LET header == Head(entries)
             target == header.name
         IN  IF header.typ = "dir"
             THEN IF target \in DOMAIN tree
                  THEN untar(tree, Tail(entries), fault)
                  ELSE LET made == MkdirAll(tree, target)
                       IN  IF made.err # NoErr
                           THEN [err |-> Wrap("failed to create dir", made.err),
                                 tree |-> tree]
                           ELSE untar(made.tree, Tail(entries), fault)
             ELSE IF \/ target = <<>>
                     \/ Parent(target) \notin DOMAIN tree
                     \/ tree[Parent(target)].typ # "dir"
                     \/ (target \in DOMAIN tree /\ tree[target].typ = "dir")
                  THEN [err |-> <<"failed to open file", "open">>, tree |-> tree]
                  ELSE LET old == IF target \in DOMAIN tree THEN tree[target].data ELSE <<>>
                           new == [typ |-> "reg", data |-> Overwrite(old, header.data)]
                       IN  untar((target :> new) @@ tree, Tail(entries), fault)

\* saveTar(r, dest): dest is the fresh scratch folder; returns the root name.
\* fault = "gzip": the response body is no gzip stream (the client does not
\* look at the status of the response); "mkroot": os.MkdirAll fails
saveTar(body, fault) ==
    IF fault = "gzip"
    THEN [err |-> <<"failed to create reader", "gzip: invalid header">>,
          root |-> <<>>, tree |-> EmptyTree]
    ELSE IF body = <<>>
    THEN [err |-> <<"failed to read the first header", "EOF">>,
          root |-> <<>>, tree |-> EmptyTree]
    ELSE LET header == Head(body)
         IN  IF header.typ # "dir"
             THEN [err |-> <<"tar must be a folder">>, root |-> <<>>, tree |-> EmptyTree]
             ELSE IF fault = "mkroot"
             THEN [err |-> <<"failed to create root dir", "mkdir">>,
                   root |-> <<>>, tree |-> EmptyTree]
             ELSE LET made == MkdirAll(EmptyTree, header.name)
                      out == untar(made.tree, Tail(body), fault)
                  IN  IF out.err # NoErr
                      THEN [err |-> Wrap("failed to extract", out.err),
                            root |-> <<>>, tree |-> out.tree]
                      ELSE [err |-> NoErr, root |-> header.name, tree |-> out.tree]

\* faulty variant: the scratch folder itself is taken, not the root folder in it
Subtree_whole(tree, root) == tree

\* the folder found at path root of a tree, as a tree of its own
Subtree(tree, root) ==
    [q \in { SubSeq(p, Len(root) + 1, Len(p)) :
               p \in { x \in DOMAIN tree : IsPrefix(root, x) } } |-> tree[root \o q]]

\* what os.RemoveAll(targetFolder) can leave behind: nothing, or, when it
\* fails part way (its error is dropped), the folder with some of its content
Closed(tree, S) == <<>> \in S /\ \A p \in S : p = <<>> \/ Parent(p) \in S
RemoveAllOutcomes(d) ==
    IF d = NoDir THEN {NoDir}
    ELSE {NoDir} \cup { [p \in S |-> d[p]] : S \in { T \in SUBSET DOMAIN d : Closed(d, T) } }

\* os.Rename(old, new) of a folder: new must be missing or an empty folder
RenameAllowed(d) == d = NoDir \/ DOMAIN d = {<<>>}

\* ------------------------------------------------------------ status store
\* faulty variant: the status is set under every key of the store
saveJobStatus_everyKey(store, jobID, status, message, ok) ==
    IF ok THEN [id \in DOMAIN store \cup {jobID} |-> JobStatus(status, message)]
    ELSE store

\* faulty variant: the entry is written although the save reports an error
saveJobStatus_writesOnError(store, jobID, status, message, ok) ==
    (jobID :> JobStatus(status, message)) @@ store

\* saveJobStatus: marshal + db.Update(tx.Set(jobID, buf)); ok = FALSE is a
\* failure of the serde or of the transaction, which writes nothing
saveJobStatus(store, jobID, status, message, ok) ==
    IF ok THEN (jobID :> JobStatus(status, message)) @@ store ELSE store

\* the statuses stored under a key so far, with one more after a save
Written(log, jobID, status, ok) ==
    IF ~ok THEN log
    ELSE IF jobID \in DOMAIN log THEN [log EXCEPT ![jobID] = Append(@, status)]
    ELSE (jobID :> <<status>>) @@ log

\* faulty variant: the stop flag is never seen
getStop_never == FALSE

\* fd.getStop(): the stop flag, read under the mutex
getStop == stop

\* faulty variant: the send goes through on the nil channel
SendReady_nil(ch) == ch.state # "closed" /\ Len(ch.buf) < jobSize

\* faulty variant: off by one, the send goes through with jobSize jobs queued
SendReady_offByOne(ch) == ch.state = "open" /\ Len(ch.buf) <= jobSize

\* the select's send case is ready: the channel exists, is open, has room
SendReady(ch) == ch.state = "open" /\ Len(ch.buf) < jobSize

\* faulty variant: the newest job goes to the front
Enqueue_front(buf, j) == <<j>> \o buf

\* faulty variant: the job is lost on its way into the channel
Enqueue_drop(buf, j) == buf

\* faulty variant: the job taken stays queued
Dequeue_keep(buf) == buf

\* a buffered channel is first in, first out
Enqueue(buf, j) == Append(buf, j)
Dequeue(buf) == Tail(buf)

\* faulty variant: the loop ends as soon as no job is queued
RangeEnds_onEmpty(ch) == ch.buf = <<>>

\* with no job queued, the range loop ends on a closed channel and blocks on
\* an open one
RangeEnds(ch) == ch.buf = <<>> /\ ch.state = "closed"

\* faulty variant: the loop goes on to the next job before the terminal save
AtRange_early(pc) == pc \in {"recv", "handled"}

\* the range loop takes its next job only at the top of the loop
AtRange(pc) == pc = "recv"

\* faulty variant: the loop is left when the save of a failed status fails
AfterSave_giveUp(err, ok) == IF err # NoErr /\ ~ok THEN "returned" ELSE "recv"

\* processJobs after the save of the terminal status: a failed save is
\* logged, and the loop goes on to the next job in every case
AfterSave(err, ok) == "recv"

\* faulty variant: every job is reported done
TerminalStatus_ok(err) == JobStatus("ok", <<"job done">>)

\* processJobs: the status saved for what handleJob returned
TerminalStatus(err) ==
    IF err # NoErr THEN JobStatus("failed", err) ELSE JobStatus("ok", <<"job done">>)

\* faulty variant: Deploy does not store the created status
SaveCreated_skip(store, jobID, ok) == store

\* Deploy: the store after saveJobStatus(job.id, "created", "job has been created")
SaveCreated(store, jobID, ok) ==
    saveJobStatus(store, jobID, "created", <<"job has been created">>, ok)

\* faulty variant: the result of the lookup is not checked
Found_any(releaseID) == TRUE

\* handleJob: targetFolder, found := fd.config.Entries[job.releaseID]
Found(releaseID) == releaseID \in DOMAIN Entries

\* faulty variant: the tag is recorded whatever the install returned
TagDue_anyResult(err, tag) == tag # ""

\* the tag is recorded on a successful install that carried a non-empty tag
TagDue(err, tag) == err = NoErr /\ tag # ""

\* faulty variant: a tag record, once written, is never replaced
saveTag_once(store, releaseID, tag, ok) ==
    IF ok /\ releaseID \notin DOMAIN store THEN (releaseID :> tag) @@ store ELSE store

\* Set(key, value) on the tag key space: one transaction, which writes
\* nothing when it fails
saveTag(store, releaseID, tag, ok) ==
    IF ok THEN (releaseID :> tag) @@ store ELSE store

\* faulty variant: a missing tag record is answered with the empty tag
GetLatestTag_empty(releaseID) ==
    [tag |-> IF releaseID \in DOMAIN tags THEN tags[releaseID] ELSE "", err |-> NoErr]

\* GetLatestTag(releaseKey): the tag record, or the sentinel "unknown" and no
\* error when there is none
GetLatestTag(releaseID) ==
    [tag |-> IF releaseID \in DOMAIN tags THEN tags[releaseID] ELSE "unknown",
     err |-> NoErr]

\* ----------------------------------------------------------- hook requests
Methods == {"GET", "POST"}
\* request bodies: nothing, an empty object, a download URL, a relative one
Bodies == {"", "{}", "{url: http://xx}", "{url: xx}"}
NoRequest == [method |-> "", body |-> ""]
\* HookHTTP before Start: start is the position of Start, quit the position
\* of the goroutine that waits on n.quit, err what Start returned
NoServer == [start |-> "idle", quit |-> "none", err |-> "", stops |-> 0]
NoResponse == [code |-> 0, msg |-> ""]
Response(code, msg) == [code |-> code, msg |-> msg]

\* faulty variant: the method is not checked
MethodAllowed_any(method) == TRUE

\* r.Method != http.MethodPost
MethodAllowed(method) == method = "POST"

\* json.NewDecoder(r.Body).Decode(&req): no JSON value in an empty body; a
\* missing field stays the empty string
Decode(body) ==
    CASE body = "" -> [err |-> <<"EOF">>, BrowserDownloadURL |-> ""]
      [] body = "{}" -> [err |-> NoErr, BrowserDownloadURL |-> ""]
      [] body = "{url: http://xx}" -> [err |-> NoErr, BrowserDownloadURL |-> "http://xx"]
      [] OTHER -> [err |-> NoErr, BrowserDownloadURL |-> "xx"]

\* url.ParseRequestURI: an absolute URI or an absolute path parses
ParseRequestURI(rawURL) == rawURL = "http://xx"

\* faulty variant: buntdb.ErrNotFound is not told from the other errors of
\* the transaction
GetStatusSerde_anyError(key, ok) ==
    IF key \notin DOMAIN db
    THEN [status |-> JobStatus("", <<>>), err |-> <<"failed to get status", "not found">>]
    ELSE IF ~ok
    THEN [status |-> JobStatus("", <<>>), err |-> <<"failed to unmarshal job status", "fakes">>]
    ELSE [status |-> db[key], err |-> NoErr]

\* GetStatus(key): one db.View transaction (tx.Get), then serde.Unmarshal;
\* ok = FALSE is a serde that fails on the stored value
GetStatusSerde(key, ok) ==
    IF key \notin DOMAIN db
    THEN [status |-> JobStatus("", <<>>), err |-> <<"key not found", key>>]
    ELSE IF ~ok
    THEN [status |-> JobStatus("", <<>>), err |-> <<"failed to unmarshal job status", "fakes">>]
    ELSE [status |-> db[key], err |-> NoErr]

\* GetStatus(key) with the JSON serde, which reads back what it wrote
GetStatus(key) == GetStatusSerde(key, TRUE)

\* ------------------------------------------------------------------- Init
Init ==
    /\ jobs = [state |-> "nil", buf |-> <<>>]
    /\ stop = FALSE
    /\ db = EmptyDB
    /\ tags = EmptyTags
    /\ hpc = [c \in Callers |-> "idle"]
    /\ hreq = [c \in Callers |-> NoRequest]
    /\ hresp = [c \in Callers |-> NoResponse]
    /\ polled = [k \in {} |-> GetStatusSerde(k, TRUE)]
    /\ srv = NoServer
    /\ disk = [p \in Targets |-> NoDir]
    /\ tmp = NoDir
    /\ nextId = 1
    /\ cpc = [c \in Callers |-> "idle"]
    /\ cjob = [c \in Callers |-> NoJob]
    /\ cret = [c \in Callers |-> ""]
    /\ wpc = "notStarted"
    /\ wjob = NoJob
    /\ werr = NoErr
    /\ wroot = <<>>
    /\ spc = "idle"
    /\ returned = {}
    /\ enqueued = <<>>
    /\ dequeued = <<>>
    /\ started = <<>>
    /\ fetched = {}
    /\ installing = {}
    /\ result = [k \in {} |-> [err |-> NoErr, saved |-> FALSE]]
    /\ writes = [k \in {} |-> <<>>]
    /\ before = disk
    /\ lastOk = [k \in DOMAIN Entries |-> ""]
    /\ lastSwap = [k \in DOMAIN Entries |-> ""]
    /\ tagged = [k \in {} |-> FALSE]
    /\ wlate = FALSE
    /\ early = {}

histVars == << returned, enqueued, dequeued, started, fetched, installing, result,
              writes, before, lastOk, lastSwap, tagged, wlate, early >>
workerVars == << wpc, wjob, werr, wroot >>
serverVars == << hpc, hreq, hresp, polled, srv >>
callerVars == << cpc, cjob, cret >>

\* ------------------------------------------------------------------ Deploy
\* Deploy up to the select: if fd.getStop() { return "deployer is stopped" };
\* job := newJob(...); saveJobStatus(job.id, "created", "job has been created").
\* The new id is known to this call alone, so the save is taken with the check.
DeployCall(c, e) ==
    /\ cpc[c] = "idle"
    /\ nextId <= e.max
    /\ \E k \in e.releaseIDs, u \in e.urls, t \in e.tags, ok \in e.oks :
          IF getStop
          THEN /\ cret' = [cret EXCEPT ![c] = "deployer is stopped"]
               /\ UNCHANGED << cpc, cjob, db, nextId, writes, early >>
          ELSE /\ nextId' = nextId + 1
               /\ early' = IF jobs.state = "nil" THEN early \cup {nextId} ELSE early
               /\ db' = SaveCreated(db, nextId, ok)
               /\ writes' = Written(writes, nextId, "created", db' # db)
               /\ IF ok
                  THEN /\ cpc' = [cpc EXCEPT ![c] = "send"]
                       /\ cjob' = [cjob EXCEPT ![c] =
                                     [id |-> nextId, releaseID |-> k, releaseURL |-> u,
                                      tag |-> t]]
                       /\ cret' = [cret EXCEPT ![c] = ""]
                  ELSE /\ cret' = [cret EXCEPT ![c] = "failed to set job status"]
                       /\ UNCHANGED << cpc, cjob >>
    /\ UNCHANGED << jobs, stop, disk, tmp, workerVars, spc, returned, enqueued, dequeued,
                    started, fetched, installing, result, before, lastOk, lastSwap >>
    /\ UNCHANGED << tags, tagged, wlate, hreq, hresp, polled, srv >>

\* Deploy: select { case fd.jobs <- job: ... default: ... }. A nil channel and
\* a full one are never ready, so default runs; a closed one panics.
DeploySend(c) ==
    /\ cpc[c] = "send"
    /\ cpc' = [cpc EXCEPT ![c] = "idle"]
    /\ cjob' = [cjob EXCEPT ![c] = NoJob]
    /\ IF jobs.state = "closed"
       THEN /\ cret' = [cret EXCEPT ![c] = "panic: send on closed channel"]
            /\ UNCHANGED << jobs, returned, enqueued >>
       ELSE IF SendReady(jobs)
       THEN /\ jobs' = [jobs EXCEPT !.buf = Enqueue(@, cjob[c])]
            /\ returned' = returned \cup {cjob[c].id}
            /\ enqueued' = Append(enqueued, cjob[c].id)
            /\ cret' = [cret EXCEPT ![c] = "nil"]
       ELSE /\ cret' = [cret EXCEPT ![c] = "buffer is full, re-try later"]
            /\ UNCHANGED << jobs, returned, enqueued >>
    /\ UNCHANGED << stop, db, disk, tmp, nextId, workerVars, spc, dequeued,
                    started, fetched, installing, result, writes, before, lastOk,
                    lastSwap, early >>
    /\ UNCHANGED << tags, tagged, wlate, hreq, hresp, polled, srv >>

\* ------------------------------------------------------------ Start, Stop
\* Start: fd.jobs = make(chan job, jobSize); fd.stop = false; processJobs()
Start ==
    /\ wpc = "notStarted"
    /\ jobs' = [state |-> "open", buf |-> <<>>]
    /\ stop' = FALSE
    /\ wpc' = "recv"
    /\ UNCHANGED << db, disk, tmp, nextId, callerVars, wjob, werr, wroot, spc, histVars >>
    /\ UNCHANGED tags
    /\ UNCHANGED serverVars

\* Stop: close(fd.jobs)
StopClose ==
    /\ spc = "idle"
    /\ jobs.state = "open"
    /\ jobs' = [jobs EXCEPT !.state = "closed"]
    /\ spc' = "closed"
    /\ UNCHANGED << stop, db, disk, tmp, nextId, callerVars, workerVars, histVars >>
    /\ UNCHANGED tags
    /\ UNCHANGED serverVars

\* Stop: fd.Lock(); fd.stop = true; fd.Unlock()
StopFlag ==
    /\ spc = "closed"
    /\ stop' = TRUE
    /\ spc' = "done"
    /\ UNCHANGED << jobs, db, disk, tmp, nextId, callerVars, workerVars, histVars >>
    /\ UNCHANGED tags
    /\ UNCHANGED serverVars

\* ------------------------------------------------------------ processJobs
\* for job := range fd.jobs: takes the oldest queued job; with nothing queued
\* it blocks on an open channel and leaves the loop on a closed one
Receive ==
    /\ AtRange(wpc)
    /\ jobs.state # "nil"
    /\ IF jobs.buf # <<>>
       THEN /\ wjob' = Head(jobs.buf)
            /\ jobs' = [jobs EXCEPT !.buf = Dequeue(@)]
            /\ dequeued' = Append(dequeued, Head(jobs.buf).id)
            /\ wpc' = "getStop"
            /\ wlate' = (jobs.state = "closed")
       ELSE /\ RangeEnds(jobs)
            /\ wpc' = "returned"
            /\ UNCHANGED << jobs, wjob, dequeued, wlate >>
    /\ UNCHANGED << stop, db, disk, tmp, nextId, callerVars, werr, wroot, spc,
                    returned, enqueued, started, fetched, installing, result, writes,
                    before, lastOk, lastSwap, early >>
    /\ UNCHANGED << tags, tagged >>
    /\ UNCHANGED serverVars

\* if fd.getStop() { return }; otherwise handleJob(job) is called
CheckStop ==
    /\ wpc = "getStop"
    /\ IF getStop
       THEN /\ wpc' = "returned"
            /\ wjob' = NoJob
            /\ wlate' = FALSE
            /\ UNCHANGED << started, installing, before >>
       ELSE /\ wpc' = "handle"
            /\ started' = Append(started, [id |-> wjob.id, releaseID |-> wjob.releaseID,
                                            tag |-> wjob.tag])
            /\ installing' = installing \cup {wjob.id}
            /\ before' = disk
            /\ UNCHANGED << wjob, wlate >>
    /\ UNCHANGED << jobs, stop, db, disk, tmp, nextId, callerVars, werr, wroot, spc,
                    returned, enqueued, dequeued, fetched, result, writes, lastOk,
                    lastSwap, early >>
    /\ UNCHANGED << tags, tagged >>
    /\ UNCHANGED serverVars

\* ---------------------------------------------------------------- handleJob
\* handleJob: the config lookup, then fd.client.Get(job.releaseURL)
HandleGet(e) ==
    /\ wpc = "handle"
    /\ IF ~Found(wjob.releaseID)
       THEN /\ werr' = <<"releaseID not found from the config", wjob.releaseID>>
            /\ wpc' = "handled"
            /\ UNCHANGED fetched
       ELSE /\ fetched' = fetched \cup {wjob.id}
            /\ \E ok \in e.oks :
                  IF ok
                  THEN wpc' = "saveTar" /\ UNCHANGED werr
                  ELSE wpc' = "handled" /\ werr' = <<"failed to get file", "get">>
    /\ UNCHANGED << jobs, stop, db, disk, tmp, nextId, callerVars, wjob, wroot, spc,
                    returned, enqueued, dequeued, started, installing, result, writes,
                    before, lastOk, lastSwap, early >>
    /\ UNCHANGED << tags, tagged, wlate >>
    /\ UNCHANGED serverVars

\* faulty variant: the old target is removed before the archive is extracted
TargetsAfterExtract_removed(d, releaseID) == [d EXCEPT ![Entries[releaseID]] = NoDir]

\* handleJob: what the extraction step does to the target folders: nothing
TargetsAfterExtract(d, releaseID) == d

\* faulty variant: the scratch folder is left behind
RemoveScratch_none(tree) == tree

\* handleJob: defer os.RemoveAll(tmpDest), run when handleJob returns
RemoveScratch(tree) == NoDir

\* handleJob: ioutil.TempDir, defer os.RemoveAll(tmpDest), saveTar(res.Body, tmpDest)
HandleSaveTar(e) ==
    /\ wpc = "saveTar"
    /\ \E ok \in e.oks, fault \in e.faults :
          IF ~ok
          THEN /\ werr' = <<"failed to create tmp dir", "mkdir">>
               /\ wpc' = "handled"
               /\ UNCHANGED << tmp, wroot >>
          ELSE LET out == saveTar(Body(wjob.releaseURL), fault)
               IN  IF out.err # NoErr
                   THEN /\ werr' = Wrap("failed to save tar file", out.err)
                        /\ wpc' = "handled"
                        /\ tmp' = RemoveScratch(out.tree)
                        /\ UNCHANGED wroot
                   ELSE /\ tmp' = out.tree
                        /\ wroot' = out.root
                        /\ wpc' = "remove"
                        /\ UNCHANGED werr
    /\ disk' = TargetsAfterExtract(disk, wjob.releaseID)
    /\ UNCHANGED << jobs, stop, db, nextId, callerVars, wjob, spc, histVars >>
    /\ UNCHANGED tags
    /\ UNCHANGED serverVars

\* handleJob: os.RemoveAll(targetFolder), its error dropped
HandleRemove(e) ==
    /\ wpc = "remove"
    /\ LET targetFolder == Entries[wjob.releaseID]
       IN  \E left \in RemoveAllOutcomes(disk[targetFolder]) :
             /\ (FALSE \in e.oks \/ left = NoDir)
             /\ disk' = [disk EXCEPT ![targetFolder] = left]
    /\ wpc' = "rename"
    /\ UNCHANGED << jobs, stop, db, tmp, nextId, callerVars, wjob, werr, wroot, spc,
                    histVars >>
    /\ UNCHANGED tags
    /\ UNCHANGED serverVars

\* handleJob: os.Rename(filepath.Join(tmpDest, tarRootFolder), targetFolder),
\* then the deferred os.RemoveAll(tmpDest)
HandleRename(e) ==
    /\ wpc = "rename"
    /\ LET targetFolder == Entries[wjob.releaseID]
       IN  \E ok \in e.oks :
             IF ok /\ RenameAllowed(disk[targetFolder])
             THEN /\ disk' = [disk EXCEPT ![targetFolder] = Subtree(tmp, wroot)]
                  /\ lastOk' = [lastOk EXCEPT ![wjob.releaseID] = wjob.releaseURL]
                  /\ lastSwap' = [lastSwap EXCEPT ![wjob.releaseID] = wjob.releaseURL]
                  /\ UNCHANGED werr
             ELSE /\ werr' = <<"failed to rename folder", "rename">>
                  /\ lastSwap' = [lastSwap EXCEPT ![wjob.releaseID] = "failed"]
                  /\ UNCHANGED << disk, lastOk >>
    /\ tmp' = RemoveScratch(tmp)
    /\ wroot' = <<>>
    /\ wpc' = "handled"
    /\ UNCHANGED << jobs, stop, db, nextId, callerVars, wjob, spc, returned, enqueued,
                    dequeued, started, fetched, installing, result, writes, before >>
    /\ UNCHANGED << tags, tagged, wlate, early >>
    /\ UNCHANGED serverVars

\* processJobs after handleJob returned: saveJobStatus(job.id, "failed",
\* err.Error()) or saveJobStatus(job.id, "ok", "job done"); a failure of the
\* save is logged and the loop goes on
SaveStatus(e) ==
    /\ wpc = "handled"
    /\ \E ok \in e.oks :
          LET st == TerminalStatus(werr)
          IN  /\ db' = saveJobStatus(db, wjob.id, st.Status, st.Message, ok)
              /\ writes' = Written(writes, wjob.id, st.Status, ok)
              /\ result' = (wjob.id :> [err |-> werr, saved |-> ok]) @@ result
              /\ IF TagDue(werr, wjob.tag)
                 THEN wpc' = "saveTag" /\ UNCHANGED << wjob, wlate >>
                 ELSE wpc' = AfterSave(werr, ok) /\ wjob' = NoJob /\ wlate' = FALSE
    /\ installing' = installing \ {wjob.id}
    /\ werr' = NoErr
    /\ before' = disk
    /\ UNCHANGED << jobs, stop, disk, tmp, nextId, callerVars, wroot, spc,
                    returned, enqueued, dequeued, started, fetched, lastOk, lastSwap, early >>
    /\ UNCHANGED << tags, tagged >>
    /\ UNCHANGED serverVars

\* the worker after the terminal status: the job's tag becomes the latest tag
\* of its release key, in one transaction of the store; a failure of the
\* write is logged and the loop goes on
SaveTag(e) ==
    /\ wpc = "saveTag"
    /\ \E ok \in e.oks :
          /\ tags' = saveTag(tags, wjob.releaseID, wjob.tag, ok)
          /\ tagged' = (wjob.id :> ok) @@ tagged
    /\ wpc' = "recv"
    /\ wjob' = NoJob
    /\ wlate' = FALSE
    /\ UNCHANGED << jobs, stop, db, disk, tmp, nextId, callerVars, werr, wroot, spc,
                    returned, enqueued, dequeued, started, fetched, installing, result,
                    writes, before, lastOk, lastSwap, early >>
    /\ UNCHANGED serverVars

\* ------------------------------------------------------------ HTTP server
\* getHookHandler up to the call of Deploy: the method, the JSON body and the
\* download URL are checked in this order
HookRequest(c, e) ==
    /\ hpc[c] = "idle"
    /\ cpc[c] = "idle"
    /\ \E method \in Methods, body \in Bodies :
          LET req == Decode(body)
          IN  /\ hreq' = [hreq EXCEPT ![c] = [method |-> method, body |-> body]]
              /\ IF ~MethodAllowed(method)
                 THEN /\ hresp' = [hresp EXCEPT ![c] = Response(403, "wrong action")]
                      /\ UNCHANGED hpc
                 ELSE IF req.err # NoErr
                 THEN /\ hresp' = [hresp EXCEPT ![c] =
                                     Response(400, "failed to decode request")]
                      /\ UNCHANGED hpc
                 ELSE IF ~ParseRequestURI(req.BrowserDownloadURL)
                 THEN /\ hresp' = [hresp EXCEPT ![c] = Response(400, "wrong url")]
                      /\ UNCHANGED hpc
                 ELSE /\ hresp' = [hresp EXCEPT ![c] = NoResponse]
                      /\ hpc' = [hpc EXCEPT ![c] = "call"]
    /\ UNCHANGED << jobs, stop, db, tags, polled, srv, disk, tmp, nextId, callerVars,
                    workerVars, spc, histVars >>

\* getHookHandler: jobID, err := deployer.Deploy(key, req.Tag, releaseURL),
\* up to Deploy's select
HookDeploy(c, e) ==
    /\ hpc[c] = "call"
    /\ DeployCall(c, e)
    /\ hpc' = [hpc EXCEPT ![c] = IF cpc'[c] = "send" THEN "send" ELSE "respond"]

\* the select of the Deploy call made by the handler
HookDeploySend(c) ==
    /\ hpc[c] = "send"
    /\ DeploySend(c)
    /\ hpc' = [hpc EXCEPT ![c] = "respond"]

\* getHookHandler after Deploy returned: 500 on an error, the job id otherwise
HookRespond(c) ==
    /\ hpc[c] = "respond"
    /\ hresp' = [hresp EXCEPT ![c] =
                   IF cret[c] # "nil" THEN Response(500, "failed to deploy")
                   ELSE Response(200, "jobID")]
    /\ hpc' = [hpc EXCEPT ![c] = "idle"]
    /\ UNCHANGED << jobs, stop, db, tags, hreq, polled, srv, disk, tmp, nextId,
                    callerVars, workerVars, spc, histVars >>

\* a GetStatus call (the status handler, or a test polling the deployer); the
\* serde may fail on the stored value
Poll(e) ==
    /\ \E key \in 1..e.max, ok \in e.oks :
          polled' = (key :> GetStatusSerde(key, ok)) @@ polled
    /\ UNCHANGED << jobs, stop, db, tags, hpc, hreq, hresp, srv, disk, tmp, nextId,
                    callerVars, workerVars, spc, histVars >>

\* ------------------------------------------------- HookHTTP.Start and Stop
\* HookHTTP.Start: net.Listen, n.ln = ln, done := make(chan bool), go func()
SrvListen(e) ==
    /\ srv.start = "idle"
    /\ \E ok \in e.oks :
          IF ok
          THEN srv' = [srv EXCEPT !.start = "serve", !.quit = "spawned"]
          ELSE srv' = [srv EXCEPT !.start = "returned", !.err = "failed to create conn"]
    /\ UNCHANGED << jobs, stop, db, tags, hpc, hreq, hresp, polled, disk, tmp, nextId,
                    callerVars, workerVars, spc, histVars >>

\* the goroutine of Start reaches <-n.quit and waits there
SrvWaitQuit ==
    /\ srv.quit = "spawned"
    /\ srv' = [srv EXCEPT !.quit = "waiting"]
    /\ UNCHANGED << jobs, stop, db, tags, hpc, hreq, hresp, polled, disk, tmp, nextId,
                    callerVars, workerVars, spc, histVars >>

\* faulty variant: the send goes through with nobody waiting on the channel
QuitReady_always(q) == TRUE

\* HookHTTP.Stop: n.quit is unbuffered, so the send case of the select is
\* ready only while the goroutine waits in <-n.quit
QuitReady(q) == q = "waiting"

\* HookHTTP.Stop: select { case n.quit <- struct{}{}: default: }
SrvStop ==
    /\ srv.start # "idle"
    /\ srv.stops < MaxStops
    /\ srv' = [srv EXCEPT !.stops = @ + 1,
                          !.quit = IF QuitReady(srv.quit) THEN "received" ELSE @]
    /\ UNCHANGED << jobs, stop, db, tags, hpc, hreq, hresp, polled, disk, tmp, nextId,
                    callerVars, workerVars, spc, histVars >>

\* the goroutine after <-n.quit: n.server.Shutdown(ctx) closes the listener
SrvShutdown ==
    /\ srv.quit = "received"
    /\ srv' = [srv EXCEPT !.quit = "shutdown"]
    /\ UNCHANGED << jobs, stop, db, tags, hpc, hreq, hresp, polled, disk, tmp, nextId,
                    callerVars, workerVars, spc, histVars >>

\* the goroutine: Shutdown returned (the handlers are done, or the 30 s of
\* its context are over); close(done)
SrvCloseDone ==
    /\ srv.quit = "shutdown"
    /\ srv' = [srv EXCEPT !.quit = "done"]
    /\ UNCHANGED << jobs, stop, db, tags, hpc, hreq, hresp, polled, disk, tmp, nextId,
                    callerVars, workerVars, spc, histVars >>

\* HookHTTP.Start: n.server.Serve(ln) returns http.ErrServerClosed once
\* Shutdown was called
SrvServeClosed ==
    /\ srv.start = "serve"
    /\ srv.quit \in {"shutdown", "done"}
    /\ srv' = [srv EXCEPT !.start = "waitDone"]
    /\ UNCHANGED << jobs, stop, db, tags, hpc, hreq, hresp, polled, disk, tmp, nextId,
                    callerVars, workerVars, spc, histVars >>

\* HookHTTP.Start: n.server.Serve(ln) fails with another error, which Start
\* returns without waiting for done
SrvServeFail(e) ==
    /\ srv.start = "serve"
    /\ srv.quit \notin {"shutdown", "done"}
    /\ FALSE \in e.oks
    /\ srv' = [srv EXCEPT !.start = "returned", !.err = "failed to listen"]
    /\ UNCHANGED << jobs, stop, db, tags, hpc, hreq, hresp, polled, disk, tmp, nextId,
                    callerVars, workerVars, spc, histVars >>

\* HookHTTP.Start: <-done; return nil
SrvReturn ==
    /\ srv.start = "waitDone"
    /\ srv.quit = "done"
    /\ srv' = [srv EXCEPT !.start = "returned", !.err = "nil"]
    /\ UNCHANGED << jobs, stop, db, tags, hpc, hreq, hresp, polled, disk, tmp, nextId,
                    callerVars, workerVars, spc, histVars >>

\* a request reaches getHookHandler while Serve accepts connections
SrvHookRequest(c, e) ==
    /\ srv.start = "serve"
    /\ srv.quit \notin {"shutdown", "done"}
    /\ HookRequest(c, e)

\* ------------------------------------------------------------------- Next
Next ==
    \/ \E c \in Env.callers : DeployCall(c, Env) /\ UNCHANGED hpc
    \/ \E c \in Env.callers : DeploySend(c) /\ UNCHANGED hpc
    \/ Start
    \/ StopClose
    \/ StopFlag
    \/ Receive
    \/ CheckStop
    \/ HandleGet(Env)
    \/ HandleSaveTar(Env)
    \/ HandleRemove(Env)
    \/ HandleRename(Env)
    \/ SaveStatus(Env)

Spec == Init /\ [][Next]_vars

\* the backpressure runs: the same engine in an environment that never fails
NextBP ==
    \/ \E c \in EnvBP.callers : DeployCall(c, EnvBP) /\ UNCHANGED hpc
    \/ \E c \in EnvBP.callers : DeploySend(c) /\ UNCHANGED hpc
    \/ Start
    \/ Receive
    \/ CheckStop
    \/ HandleGet(EnvBP)
    \/ HandleSaveTar(EnvBP)
    \/ HandleRemove(EnvBP)
    \/ HandleRename(EnvBP)
    \/ SaveStatus(EnvBP)

SpecBP == Init /\ [][NextBP]_vars

\* the runs with tags: the engine of Deploy(releaseKey, sourceURL, tag)
NextTag ==
    \/ \E c \in EnvTag.callers : DeployCall(c, EnvTag) /\ UNCHANGED hpc
    \/ \E c \in EnvTag.callers : DeploySend(c) /\ UNCHANGED hpc
    \/ Start
    \/ Receive
    \/ CheckStop
    \/ HandleGet(EnvTag)
    \/ HandleSaveTar(EnvTag)
    \/ HandleRemove(EnvTag)
    \/ HandleRename(EnvTag)
    \/ SaveStatus(EnvTag)
    \/ SaveTag(EnvTag)

SpecTag == Init /\ [][NextTag]_vars

\* the runs in which the goroutines that run Start and Stop are scheduled:
\* a step of processJobs, of handleJob or of Stop that can be taken is taken
\* in the end (every step of an install returns, with or without an error)
EnvLive == [callers |-> {"c1"}, releaseIDs |-> {"k1", "kx"}, urls |-> {"uA"},
            max |-> MaxJobs, oks |-> BOOLEAN, faults |-> {"none"}, tags |-> {""}]
NextLive ==
    \/ \E c \in EnvLive.callers : DeployCall(c, EnvLive) /\ UNCHANGED hpc
    \/ \E c \in EnvLive.callers : DeploySend(c) /\ UNCHANGED hpc
    \/ Start
    \/ StopClose
    \/ StopFlag
    \/ Receive
    \/ CheckStop
    \/ HandleGet(EnvLive)
    \/ HandleSaveTar(EnvLive)
    \/ HandleRemove(EnvLive)
    \/ HandleRename(EnvLive)
    \/ SaveStatus(EnvLive)

Fairness ==
    /\ WF_vars(StopFlag)
    /\ WF_vars(Receive)
    /\ WF_vars(CheckStop)
    /\ WF_vars(HandleGet(EnvLive))
    /\ WF_vars(HandleSaveTar(EnvLive))
    /\ WF_vars(HandleRemove(EnvLive))
    /\ WF_vars(HandleRename(EnvLive))
    /\ WF_vars(SaveStatus(EnvLive))

SpecLive == Init /\ [][NextLive]_vars /\ Fairness

\* the runs with the HTTP server in front: Deploy is called by the hook
\* handler, GetStatus by pollers
EnvHTTP == [callers |-> {"c1"}, releaseIDs |-> {"k1", "kx"}, urls |-> {"uA"},
            max |-> MaxJobs, oks |-> BOOLEAN, faults |-> {"none"}, tags |-> {""}]
NextHTTP ==
    \/ \E c \in EnvHTTP.callers : HookRequest(c, EnvHTTP)
    \/ \E c \in EnvHTTP.callers : HookDeploy(c, EnvHTTP)
    \/ \E c \in EnvHTTP.callers : HookDeploySend(c)
    \/ \E c \in EnvHTTP.callers : HookRespond(c)
    \/ Poll(EnvHTTP)
    \/ Start
    \/ Receive
    \/ CheckStop
    \/ HandleGet(EnvHTTP)
    \/ HandleSaveTar(EnvHTTP)
    \/ HandleRemove(EnvHTTP)
    \/ HandleRename(EnvHTTP)
    \/ SaveStatus(EnvHTTP)

SpecHTTP == Init /\ [][NextHTTP]_vars

\* the runs of main: the HTTP server and the deployer are started, requests
\* come in while the server serves, and Stop is called on the server
EnvSrv == [callers |-> {"c1"}, releaseIDs |-> {"k1"}, urls |-> {"uA"},
           max |-> MaxJobs, oks |-> BOOLEAN, faults |-> {"none"}, tags |-> {""}]
NextSrv ==
    \/ SrvListen(EnvSrv)
    \/ SrvWaitQuit
    \/ SrvStop
    \/ SrvShutdown
    \/ SrvCloseDone
    \/ SrvServeClosed
    \/ SrvServeFail(EnvSrv)
    \/ SrvReturn
    \/ \E c \in EnvSrv.callers : SrvHookRequest(c, EnvSrv)
    \/ \E c \in EnvSrv.callers : HookDeploy(c, EnvSrv)
    \/ \E c \in EnvSrv.callers : HookDeploySend(c)
    \/ \E c \in EnvSrv.callers : HookRespond(c)
    \/ Start
    \/ Receive
    \/ CheckStop
    \/ HandleGet(EnvSrv)
    \/ HandleSaveTar(EnvSrv)
    \/ HandleRemove(EnvSrv)
    \/ HandleRename(EnvSrv)
    \/ SaveStatus(EnvSrv)

FairnessSrv ==
    /\ WF_vars(SrvWaitQuit)
    /\ WF_vars(SrvShutdown)
    /\ WF_vars(SrvCloseDone)
    /\ WF_vars(SrvServeClosed)
    /\ WF_vars(SrvReturn)

SpecSrv == Init /\ [][NextSrv]_vars /\ FairnessSrv

\* ----------------------------------------------------------------- claims
Statuses == {"created", "ok", "failed"}
Last(q) == q[Len(q)]
NoDup(q) == \A i, j \in 1..Len(q) : q[i] = q[j] => i = j
StartedIds == [i \in 1..Len(started) |-> started[i].id]
IsPrefixSeq(q, r) == Len(q) <= Len(r) /\ \A i \in 1..Len(q) : q[i] = r[i]
\* the release key has a target folder in the configuration
Mapped(releaseID) == releaseID \in DOMAIN Entries
\* handleJob is running
InstallInProgress == wpc \in {"handle", "saveTar", "remove", "rename"}

\* C1: every job id Deploy returned has a stored status, so GetStatus never
\* answers not-found for it: it reads created, ok or failed; the created
\* status is in the store before the job is in the channel.
C1_ReturnedIdHasStatus ==
    /\ \A id \in returned :
          /\ GetStatus(id).err = NoErr
          /\ GetStatus(id).status.Status \in Statuses
    /\ \A i \in 1..Len(enqueued) :
          /\ enqueued[i] \in DOMAIN writes
          /\ writes[enqueued[i]][1] = "created"
    /\ \A i \in 1..Len(jobs.buf) : jobs.buf[i].id \in DOMAIN db

\* C1 witness: Deploy returned an id whose job still waits in the channel, and
\* its status reads created
C1_Witness ==
    \E id \in returned :
        /\ \E i \in 1..Len(jobs.buf) : jobs.buf[i].id = id
        /\ GetStatus(id).status = JobStatus("created", <<"job has been created">>)

\* C2: the channel never holds more than jobSize (50) jobs; a Deploy that
\* reaches its select on an open channel holding jobSize jobs returns the
\* buffer-full error at once and queues nothing; while nothing has been taken
\* from the channel, a Deploy on the open channel succeeds exactly when fewer
\* than jobSize Deploys have succeeded (the first 50 succeed, the 51st fails).
C2_Step ==
    /\ Len(jobs.buf) <= jobSize
    /\ Len(jobs'.buf) <= jobSize
    /\ \A c \in Callers :
          (cpc[c] = "send" /\ jobs.state = "open") =>
              /\ ENABLED DeploySend(c)
              /\ DeploySend(c) /\ Len(jobs.buf) = jobSize =>
                    /\ cret'[c] = "buffer is full, re-try later"
                    /\ jobs' = jobs
                    /\ returned' = returned
              /\ DeploySend(c) /\ dequeued = <<>> =>
                    /\ Len(jobs.buf) = Cardinality(returned)
                    /\ Cardinality(returned) < jobSize =>
                          /\ cret'[c] = "nil"
                          /\ returned' = returned \cup {cjob[c].id}
                          /\ jobs'.buf = Append(jobs.buf, cjob[c])
                    /\ Cardinality(returned) >= jobSize =>
                          /\ cret'[c] = "buffer is full, re-try later"
                          /\ returned' = returned
C2_Backpressure == [][C2_Step]_vars

\* C2 witness: 50 Deploys succeeded, nothing was taken from the channel, and
\* the next Deploy was turned away with the buffer-full error
C2_Witness ==
    /\ jobs.state = "open"
    /\ dequeued = <<>>
    /\ Cardinality(returned) = jobSize
    /\ Len(jobs.buf) = jobSize
    /\ cret["c1"] = "buffer is full, re-try later"

\* C3: a Deploy call that begins after Stop has returned fails with
\* "deployer is stopped": no job id is generated, nothing is written to the
\* store, nothing is queued.
C3_Step ==
    \A c \in Callers :
        (spc = "done" /\ DeployCall(c, Env)) =>
            /\ cret'[c] = "deployer is stopped"
            /\ cpc'[c] = "idle"
            /\ UNCHANGED << nextId, db, writes, jobs, enqueued, returned >>
C3_DeployAfterStop == [][C3_Step]_vars

\* C3 witness: Stop has returned and a Deploy call was answered with the
\* stopped error
C3_Witness ==
    /\ spc = "done"
    /\ \E c \in Callers : cret[c] = "deployer is stopped"

\* C4: for every job handed to handleJob (taken with the stop flag clear) the
\* status the worker stores is ok / "job done" exactly when handleJob returned
\* nil, and failed / the error's text exactly when it returned an error; the
\* error of an install is never what a Deploy call returns.
DeployErrors ==
    {"", "nil", "deployer is stopped", "failed to set job status",
     "buffer is full, re-try later", "panic: send on closed channel"}
C4_TerminalStatus ==
    /\ \A i \in 1..Len(started) :
          started[i].id \in DOMAIN result \/ (i = Len(started) /\ wjob.id = started[i].id)
    /\ \A id \in DOMAIN result :
          /\ (result[id].saved /\ result[id].err = NoErr)
                => db[id] = JobStatus("ok", <<"job done">>)
          /\ (result[id].saved /\ result[id].err # NoErr)
                => db[id] = JobStatus("failed", result[id].err)
    /\ \A id \in DOMAIN db :
          /\ db[id].Status = "ok"
                => id \in DOMAIN result /\ result[id].err = NoErr
          /\ db[id].Status = "failed"
                => id \in DOMAIN result /\ result[id].err # NoErr
    /\ \A c \in Callers : cret[c] \in DeployErrors

\* C4 witness: one job was installed and reads ok, another failed and reads
\* failed with the error of its install
C4_Witness ==
    \E a, b \in DOMAIN result :
        /\ result[a].saved /\ result[a].err = NoErr /\ db[a].Status = "ok"
        /\ result[b].saved /\ result[b].err # NoErr /\ db[b].Message = result[b].err

\* C5: under every job id the store is written created first, then at most
\* once more with ok or failed, and never again after that; no job is taken
\* from the channel twice and none is installed twice.
C5_StatusOnce ==
    /\ DOMAIN writes = DOMAIN db
    /\ \A id \in DOMAIN writes :
          /\ writes[id] \in {<<"created">>, <<"created", "ok">>, <<"created", "failed">>}
          /\ db[id].Status = Last(writes[id])
    /\ NoDup(dequeued)
    /\ NoDup(StartedIds)

\* C5 witness: both jobs were taken from the channel, one reached failed and
\* the other ok
C5_Witness ==
    /\ Len(dequeued) = 2
    /\ \E a, b \in DOMAIN writes :
          writes[a] = <<"created", "failed">> /\ writes[b] = <<"created", "ok">>

\* C6: with Start called once, at most one install is in progress at any
\* instant, however many Deploy calls run: handleJob is not called on the next
\* job before the previous job's handleJob and terminal save are over.
C6_OneInstall ==
    /\ Cardinality(installing) <= 1
    /\ InstallInProgress => installing = {wjob.id}
    /\ \A i \in 1..Len(started) :
          i < Len(started) => started[i].id \notin installing

\* C6 witness: an install runs while another job waits in the channel and
\* the other caller is inside Deploy
C6_Witness ==
    /\ InstallInProgress
    /\ Len(jobs.buf) >= 1
    /\ installing = {wjob.id}

\* C7: jobs are processed in the order they entered the channel: the jobs
\* handed to handleJob are, in order, the first jobs queued, and each one's
\* handleJob and terminal save are over before the next one's handleJob starts.
C7_Fifo ==
    /\ IsPrefixSeq(dequeued, enqueued)
    /\ IsPrefixSeq(StartedIds, dequeued)
    /\ \A i \in 1..Len(started) :
          i < Len(started) => started[i].id \in DOMAIN result

\* C7 witness: the job with the younger id was queued first, and both jobs
\* were installed in the order they were queued
C7_Witness ==
    /\ Len(enqueued) >= 2
    /\ enqueued[1] > enqueued[2]
    /\ Len(started) >= 2
    /\ started[2].id \in DOMAIN result

\* the folder an archive describes: what its entries put under its root
\* folder (the first entry), by path below the root
Contents(tar) ==
    LET root == Head(tar).name
        under == { i \in 1..Len(tar) : IsPrefix(root, tar[i].name) }
        rel(i) == SubSeq(tar[i].name, Len(root) + 1, Len(tar[i].name))
    IN  [q \in { rel(i) : i \in under } |->
            LET i == CHOOSE i \in under : rel(i) = q
            IN  [typ |-> tar[i].typ, data |-> tar[i].data]]

\* C8 as stated: whenever no install is in progress, the target folder of a
\* release key that had a successful install holds exactly the contents of
\* the most recent successful install for that key, whatever failed later.
C8_Original ==
    ~InstallInProgress =>
        \A k \in DOMAIN Entries :
            lastOk[k] # "" => disk[Entries[k]] = Contents(Body(lastOk[k]))

\* C8 amended: whenever no install is in progress, the target folder of a
\* release key whose most recent install to reach the removal step succeeded
\* holds exactly the contents of that install, the most recent successful
\* one; installs that failed later, before the removal step, changed nothing.
\* (An install that fails after the removal leaves the target absent or
\* partly removed.)
C8_LatestInstall ==
    ~InstallInProgress =>
        \A k \in DOMAIN Entries :
            lastSwap[k] \in URLs =>
                /\ lastOk[k] = lastSwap[k]
                /\ disk[Entries[k]] = Contents(Body(lastSwap[k]))

\* C8 witness: a key was installed, a later install for it has just failed
\* before the removal step, and the target still holds the installed contents
C8_Witness ==
    /\ wpc = "handled"
    /\ werr # NoErr
    /\ Mapped(wjob.releaseID)
    /\ lastSwap[wjob.releaseID] \in URLs
    /\ disk[Entries[wjob.releaseID]] = Contents(Body(lastSwap[wjob.releaseID]))
    /\ Cardinality(DOMAIN disk[Entries[wjob.releaseID]]) >= 2

\* the error handleJob returns for a release key with no config entry
NotFoundErr(releaseID) == <<"releaseID not found from the config", releaseID>>

\* C9, the part that holds as stated: handleJob on a job whose release key
\* has no config entry returns the error naming the key, calls no client.Get
\* and leaves the target folders and the scratch folder alone
C9_Frame ==
    /\ \A i \in 1..Len(started) :
          ~Mapped(started[i].releaseID) =>
              /\ started[i].id \notin fetched
              /\ started[i].id \in DOMAIN result =>
                    result[started[i].id].err = NotFoundErr(started[i].releaseID)
    /\ (wpc \in {"handle", "saveTar", "remove", "rename", "handled"}
          /\ ~Mapped(wjob.releaseID)) =>
              /\ wpc \in {"handle", "handled"}
              /\ disk = before
              /\ tmp = NoDir
              /\ wpc = "handled" => werr = NotFoundErr(wjob.releaseID)

\* C9 as stated: a processed job whose release key has no config entry ends
\* with status failed and a message naming the key, with no fetch and no
\* change of a target folder.
C9_Original ==
    /\ C9_Frame
    /\ \A i \in 1..Len(started) :
          (~Mapped(started[i].releaseID) /\ started[i].id \in DOMAIN result) =>
              db[started[i].id] = JobStatus("failed", NotFoundErr(started[i].releaseID))

\* C9 amended: a processed job whose release key has no config entry fails
\* with the error naming the key, with no fetch and no change of a target
\* folder; its stored status is failed with that message whenever the store
\* took the worker's save, and stays created when that save failed.
C9_UnmappedKey ==
    /\ C9_Frame
    /\ \A i \in 1..Len(started) :
          (~Mapped(started[i].releaseID) /\ started[i].id \in DOMAIN result) =>
              db[started[i].id] =
                  IF result[started[i].id].saved
                  THEN JobStatus("failed", NotFoundErr(started[i].releaseID))
                  ELSE JobStatus("created", <<"job has been created">>)

\* C9 witness: a job for the key without config entry was processed and its
\* status reads failed, while a target folder holds an earlier install
C9_Witness ==
    \E i \in 1..Len(started) :
        /\ ~Mapped(started[i].releaseID)
        /\ started[i].id \in DOMAIN result
        /\ db[started[i].id].Status = "failed"
        /\ \E p \in Targets : disk[p] # NoDir

\* C10: when handleJob fails because the first entry of the archive is no
\* folder, or at the fetch, the decompression or the extraction, every target
\* folder is as it was when the job started: nothing before the removal step
\* touches it.
EarlyFailures == {"failed to get file", "failed to create tmp dir", "failed to save tar file"}
C10_EarlyFailureFrame ==
    /\ wpc \in {"handle", "saveTar", "remove"} => disk = before
    /\ (wpc = "handled" /\ werr # NoErr /\ Head(werr) \in EarlyFailures) =>
          /\ disk = before
          /\ tmp = NoDir

\* C10 witness: an install into a folder that holds an earlier install failed
\* because the first entry of its archive is a file
C10_Witness ==
    /\ wpc = "handled"
    /\ werr = <<"failed to save tar file", "tar must be a folder">>
    /\ disk[Entries[wjob.releaseID]] # NoDir
    /\ disk = before

\* C11: when handleJob has returned nil for a job, the target folder of the
\* job's release key holds exactly what the archive has under its root
\* folder, with the same bytes: every file of the archive is there, and what
\* the folder held before and the archive does not have is gone.
C11_InstallReplaces ==
    (wpc = "handled" /\ werr = NoErr) =>
        LET target == disk[Entries[wjob.releaseID]]
            tar == Body(wjob.releaseURL)
        IN  /\ target = Contents(tar)
            /\ \A i \in 2..Len(tar) :
                  LET q == SubSeq(tar[i].name, Len(Head(tar).name) + 1, Len(tar[i].name))
                  IN  q \in DOMAIN target /\ target[q].data = tar[i].data
            /\ \A q \in DOMAIN before[Entries[wjob.releaseID]] :
                  q \notin DOMAIN Contents(tar) => q \notin DOMAIN target
            /\ tmp = NoDir

\* C11 witness: the folder held files a and b of an earlier install, the
\* install of the archive with a alone has succeeded, and b is gone
C11_Witness ==
    /\ wpc = "handled"
    /\ werr = NoErr
    /\ wjob.releaseURL = "uB"
    /\ <<"b">> \in DOMAIN before[Entries[wjob.releaseID]]
    /\ <<"b">> \notin DOMAIN disk[Entries[wjob.releaseID]]
    /\ disk[Entries[wjob.releaseID]][<<"a">>].data = <<3>>

\* the jobs handed to handleJob that carried a tag and whose handleJob
\* returned nil, by position in started
TaggedOk(i) ==
    /\ started[i].tag # ""
    /\ started[i].id \in DOMAIN result
    /\ result[started[i].id].err = NoErr

\* C12: GetLatestTag(k) answers "unknown" and no error as long as no install
\* for k that carried a non-empty tag has succeeded: for a key never
\* deployed, a key whose installs all failed, and a key installed without tag.
C12_UnknownTag ==
    \A k \in ReleaseIDs :
        (~\E i \in 1..Len(started) : started[i].releaseID = k /\ TaggedOk(i)) =>
            GetLatestTag(k) = [tag |-> "unknown", err |-> NoErr]

\* C12 witness: a key had a tagged install that failed and an install without
\* tag that succeeded, and its latest tag reads "unknown"
C12_Witness ==
    \E i, j \in 1..Len(started) :
        /\ started[i].releaseID = started[j].releaseID
        /\ started[i].tag # ""
        /\ started[i].id \in DOMAIN result /\ result[started[i].id].err # NoErr
        /\ started[j].tag = ""
        /\ started[j].id \in DOMAIN result /\ result[started[j].id].err = NoErr
        /\ wpc = "recv"
        /\ GetLatestTag(started[i].releaseID).tag = "unknown"

\* C13: the tag records change only in the step that follows a successful
\* install of a job with a non-empty tag, and then the record of that job's
\* release key becomes that job's tag and no other record changes; the
\* processing of a failed install, or of a successful one with an empty tag,
\* goes back to the loop with every tag record as it was.
C13_Step ==
    /\ tags' # tags =>
          /\ wpc = "saveTag"
          /\ wjob.tag # ""
          /\ wjob.id \in DOMAIN result /\ result[wjob.id].err = NoErr
          /\ tags' = (wjob.releaseID :> wjob.tag) @@ tags
          /\ \A k \in DOMAIN tags : k # wjob.releaseID => tags'[k] = tags[k]
    /\ (wpc = "handled" /\ wpc' # "handled" /\ (werr # NoErr \/ wjob.tag = "")) =>
          /\ wpc' = "recv"
          /\ tags' = tags
    /\ wpc' = "saveTag" => (wjob'.tag # "" /\ result'[wjob'.id].err = NoErr)
C13_TagWrittenOnSuccess == [][C13_Step]_vars

\* C13 witness: a key was installed with tag v1, a later install for it with
\* another tag failed, and the record still reads v1
C13_Witness ==
    \E i, j \in 1..Len(started) :
        /\ i < j
        /\ started[i].releaseID = started[j].releaseID
        /\ TaggedOk(i)
        /\ started[j].tag \notin {"", started[i].tag}
        /\ started[j].id \in DOMAIN result /\ result[started[j].id].err # NoErr
        /\ wpc = "recv"
        /\ GetLatestTag(started[i].releaseID).tag = started[i].tag

\* the job at position i of started is the last one handed to handleJob for
\* its release key
LastForKey(i) ==
    \A j \in 1..Len(started) : j > i => started[j].releaseID # started[i].releaseID

C15_Step ==
    \A key \in DOMAIN polled' :
        (key \notin DOMAIN polled \/ polled'[key] # polled[key]) =>
            /\ db' = db
            /\ tags' = tags
            /\ key \notin DOMAIN db => polled'[key].err = <<"key not found", key>>
            /\ key \in DOMAIN db =>
                  \/ polled'[key] = [status |-> db[key], err |-> NoErr]
                  \/ /\ Head(polled'[key].err) = "failed to unmarshal job status"
                     /\ polled'[key].err # <<"key not found", key>>
C15_GetStatusErrors == [][C15_Step]_vars

\* C15 witness: one id was polled with no entry stored and answered not
\* found, another was polled with an entry the serde failed on
C15_Witness ==
    \E a, b \in DOMAIN polled :
        /\ a \notin DOMAIN db
        /\ polled[a].err = <<"key not found", a>>
        /\ b \in DOMAIN db
        /\ Head(polled[b].err) = "failed to unmarshal job status"

\* the request passes the handler's checks
ValidRequest(req) ==
    /\ req.method = "POST"
    /\ req.body \in {"{url: http://xx}"}

\* C18: the hook handler calls Deploy only for a POST request whose body
\* decodes and whose download URL parses; a request with another method is
\* answered 403, one with an undecodable body or an unparsable URL 400, and
\* for none of these Deploy is called; an error returned by Deploy is
\* answered 500.
C18_Step ==
    /\ (nextId' # nextId \/ db' # db \/ Len(jobs'.buf) > Len(jobs.buf)) =>
          \/ wpc = "handled"
          \/ \E c \in Callers : hpc[c] \in {"call", "send"} /\ ValidRequest(hreq[c])
    /\ \A c \in Callers :
        /\ hreq'[c] # hreq[c] =>
              /\ hreq'[c].method # "POST" => hresp'[c].code = 403
              /\ (hreq'[c].method = "POST" /\ hreq'[c].body \in {"", "{}", "{url: xx}"})
                    => hresp'[c].code = 400
              /\ ~ValidRequest(hreq'[c]) =>
                    /\ hpc'[c] = "idle"
                    /\ UNCHANGED << cpc, cjob, cret, nextId, db, jobs, writes >>
        /\ (cpc'[c] # cpc[c] \/ cret'[c] # cret[c]) =>
              /\ hpc[c] \in {"call", "send"}
              /\ ValidRequest(hreq[c])
        /\ (hpc[c] = "respond" /\ hpc'[c] # "respond") =>
              /\ cret[c] # "nil" => hresp'[c].code = 500
              /\ cret[c] = "nil" => hresp'[c].code = 200
C18_HookValidation == [][C18_Step]_vars

\* C18 witness: after a request that deployed a job, a request with the
\* wrong method was answered 403 with no Deploy call
C18_Witness ==
    /\ returned # {}
    /\ hreq["c1"].method = "GET"
    /\ hresp["c1"] = Response(403, "wrong action")
    /\ hpc["c1"] = "idle"
    /\ cret["c1"] = "nil"

\* the job's status reads ok or failed
Terminal(id) == id \in DOMAIN db /\ db[id].Status \in {"ok", "failed"}
\* Stop was called while the job had not been handed to handleJob
UnprocessedAtStop(id) ==
    spc # "idle" /\ \A i \in 1..Len(started) : started[i].id # id
\* the worker is done with the job: handleJob returned and the save of its
\* terminal status was tried
Processed(id) == id \in DOMAIN result

\* C16 as stated: every job whose id Deploy returned has in the end a
\* terminal status, ok or failed, unless it was still unprocessed when Stop
\* was called.
C16_Original ==
    \A id \in 1..MaxJobs :
        (id \in returned) ~> (Terminal(id) \/ UnprocessedAtStop(id))

\* C16 amended: every job whose id Deploy returned is in the end processed
\* by the worker, and its status is then terminal (ok or failed) whenever the
\* store took the worker's write of it, unless the job was still unprocessed
\* when Stop was called; when the store rejects that write, which is only
\* logged, the status stays created.
C16_NoSilentLoss ==
    /\ \A id \in 1..MaxJobs :
          (id \in returned) ~> (Processed(id) \/ UnprocessedAtStop(id))
    /\ [](\A id \in DOMAIN result :
            IF result[id].saved THEN Terminal(id) ELSE db[id].Status = "created")

\* C16 witness: Stop was called with one job processed, its status terminal,
\* and another job returned by Deploy but never handed to handleJob
C16_Witness ==
    /\ spc = "done"
    /\ wpc = "returned"
    /\ \E a, b \in returned :
          /\ Processed(a) /\ Terminal(a)
          /\ UnprocessedAtStop(b) /\ db[b].Status = "created"

\* C17: Start returns only after Stop was called: with no job queued it
\* blocks on the open channel; and once Stop was called after Start made the
\* channel, Start returns in the end (every install step returns).
C17_StartBlocksUntilStop ==
    /\ [](wpc = "returned" => spc # "idle")
    /\ (spc # "idle") ~> (wpc = "returned")

\* C17 witness: Stop was called while an install was running with a job
\* queued behind it, and Start has returned
C17_Witness ==
    /\ wpc = "returned"
    /\ spc = "done"
    /\ Len(started) >= 1
    /\ Len(enqueued) = 2

\* C19 as stated: with Deploy calls running concurrently with one Stop call
\* after Start, no Deploy call sends on the closed channel: each one queues
\* its job on the open channel or returns the stopped or the buffer-full
\* error (or the error of the store).
C19_Original ==
    \A c \in Callers : cret[c] # "panic: send on closed channel"

\* C20: when the worker has taken a job and finds the stop flag set, it
\* leaves the loop at once: handleJob is not called for the job, no status is
\* written for it, and no further job is taken, so the jobs behind it stay in
\* the channel and stay created; no install starts once Stop has returned.
C20_Step ==
    /\ (wpc = "getStop" /\ stop /\ wpc' # wpc) =>
          /\ wpc' = "returned"
          /\ UNCHANGED << started, fetched, installing, result, writes, db, disk, tmp,
                          jobs, dequeued >>
    /\ wpc = "returned" =>
          /\ wpc' = "returned"
          /\ UNCHANGED << started, dequeued, disk >>
          /\ \A i \in 1..Len(jobs.buf) :
                /\ i <= Len(jobs'.buf) /\ jobs'.buf[i] = jobs.buf[i]
                /\ writes[jobs.buf[i].id] = <<"created">>
          /\ \A i \in 1..Len(dequeued) :
                (\A j \in 1..Len(started) : started[j].id # dequeued[i]) =>
                    /\ i = Len(dequeued)
                    /\ writes[dequeued[i]] = <<"created">>
                    /\ writes'[dequeued[i]] = <<"created">>
    /\ spc = "done" => started' = started
C21_Original ==
    /\ wlate =>
          /\ wpc = "getStop"
          /\ \A i \in 1..Len(started) : started[i].id # wjob.id
          /\ db[wjob.id].Status = "created"
    /\ (jobs.state = "closed" /\ wpc = "returned") =>
          \A i \in 1..Len(jobs.buf) : db[jobs.buf[i].id].Status = "created"

\* the job was handed to handleJob
Attempted(id) == \E i \in 1..Len(started) : started[i].id = id

\* C22: as long as Stop is not called, the loop goes on after every job,
\* whether its install succeeded, failed, or the save of its terminal status
\* failed: every job that entered the channel is in the end taken from it
\* and handed to handleJob.
C22_LoopContinues ==
    /\ \A id \in 1..MaxJobs :
          (id \in returned) ~> (Attempted(id) \/ spc # "idle")
    /\ [][(wpc = "handled" /\ wpc' # "handled") => wpc' = "recv"]_vars

\* C22 witness: Stop was not called; the first job's install failed and the
\* save of its status failed too, and the second job was handed to handleJob
C22_Witness ==
    /\ spc = "idle"
    /\ Len(started) = 2
    /\ started[1].id \in DOMAIN result
    /\ result[started[1].id].err # NoErr
    /\ ~result[started[1].id].saved

\* C23: when the save of the created status fails inside Deploy, Deploy
\* returns that error to its caller and no job id: no job is queued, and the
\* channel and the store are as before the call.
C23_Step ==
    \A c \in Callers :
        (DeployCall(c, Env) /\ ~getStop /\ cpc'[c] # "send") =>
            /\ cret'[c] = "failed to set job status"
            /\ cpc'[c] = "idle"
            /\ cjob'[c] = NoJob
            /\ nextId \notin returned'
            /\ \A i \in 1..Len(jobs'.buf) : jobs'.buf[i].id # nextId
            /\ UNCHANGED << jobs, db, tags, writes, returned, enqueued >>
C23_CreatedSaveFails == [][C23_Step]_vars

\* C23 witness: with a job queued and the worker started, a Deploy call was
\* answered with the error of the store, and its id has no entry
C23_Witness ==
    /\ \E c \in Callers : cret[c] = "failed to set job status"
    /\ jobs.state = "open"
    /\ Len(jobs.buf) = 1
    /\ nextId = 3
    /\ Cardinality(DOMAIN db) = 1

\* C24: when an install fails and the save of the failed status fails too,
\* the failure is only logged: the job's entry stays as it was, created, no
\* Deploy call and no handler gets the error, and the worker goes on to the
\* next job.
C24_Step ==
    (/\ wpc = "handled" /\ wpc' # "handled"
     /\ werr # NoErr
     /\ ~result'[wjob.id].saved) =>
        /\ db' = db
        /\ db[wjob.id] = JobStatus("created", <<"job has been created">>)
        /\ writes'[wjob.id] = <<"created">>
        /\ UNCHANGED << cret, cpc, hresp, polled, jobs, stop >>
        /\ wpc' = "recv"
        /\ wjob' = NoJob
C24_FailedSaveFails == [][C24_Step]_vars

\* C24 witness: the install of the first job failed, the save of failed was
\* rejected, its status reads created, and the worker has taken the next job
C24_Witness ==
    /\ Len(dequeued) = 2
    /\ wpc = "getStop"
    /\ result[dequeued[1]].err # NoErr
    /\ ~result[dequeued[1]].saved
    /\ db[dequeued[1]].Status = "created"

\* C25 as stated: the failed save of the failed status is the only error
\* nobody gets to see; in particular a job whose install succeeded never
\* stays at created.
C25_Original ==
    \A id \in DOMAIN result :
        result[id].err = NoErr => db[id].Status # "created"

\* C25 amended: the worker only logs a failed save of either terminal status,
\* failed after a failed install and ok after a successful one, and the job
\* then stays at created; every error handleJob returns is stored as the
\* failed status when the store takes the save, and a Deploy call that hands
\* out no id ends with one of Deploy's errors or, when it sends on the channel
\* Stop has closed, with the panic of that send.
C25_Step ==
    \A c \in Callers :
        ((DeployCall(c, Env) \/ DeploySend(c)) /\ cpc'[c] = "idle") =>
            IF returned' # returned
            THEN cret'[c] = "nil"
            ELSE cret'[c] \in DeployErrors \ {"", "nil"}
C25_Stored ==
    \A id \in DOMAIN result :
        db[id] = IF ~result[id].saved
                 THEN JobStatus("created", <<"job has been created">>)
                 ELSE IF result[id].err # NoErr
                 THEN JobStatus("failed", result[id].err)
                 ELSE JobStatus("ok", <<"job done">>)
C25_SwallowedErrors == []C25_Stored /\ [][C25_Step]_vars

\* C25 witness: the install of one job succeeded and the save of ok was
\* rejected, so it reads created, while another job's failure was stored
C25_Witness ==
    \E a, b \in DOMAIN result :
        /\ result[a].err = NoErr /\ ~result[a].saved /\ db[a].Status = "created"
        /\ result[b].err # NoErr /\ result[b].saved /\ db[b].Status = "failed"

\* C26 as stated: when the removal of the old target succeeded and the rename
\* of the extracted root folder fails, the job ends with status failed and
\* the target is absent, with neither the old nor the new content.
RenameErr == <<"failed to rename folder", "rename">>
C26_RenameFails ==
    (wpc = "rename" /\ wpc' = "handled" /\ werr' # NoErr
       /\ disk[Entries[wjob.releaseID]] = NoDir) =>
        /\ werr' = RenameErr
        /\ disk'[Entries[wjob.releaseID]] = NoDir
        /\ lastOk' = lastOk
C26_NoRestore ==
    \A p \in Targets :
        (disk[p] = NoDir /\ disk'[p] # NoDir) =>
            /\ wpc = "rename" /\ werr' = NoErr
            /\ p = Entries[wjob.releaseID]
            /\ disk'[p] = Contents(Body(wjob.releaseURL))
C26_Original ==
    [][/\ C26_RenameFails
       /\ C26_NoRestore
       /\ (wpc = "handled" /\ wpc' # "handled" /\ werr = RenameErr) =>
              db'[wjob.id] = JobStatus("failed", RenameErr)]_vars

\* C26 amended: when the removal of the old target succeeded and the rename
\* fails, handleJob returns the rename error and the target is absent, with
\* neither the old nor the new content; a target goes from absent to present
\* only by the rename of a later install, which puts the new archive there;
\* the job's status is failed when the store takes the worker's save and
\* stays created when it does not.
C26_RenameFailure ==
    [][/\ C26_RenameFails
       /\ C26_NoRestore
       /\ (wpc = "handled" /\ wpc' # "handled" /\ werr = RenameErr) =>
              db'[wjob.id] = IF result'[wjob.id].saved
                             THEN JobStatus("failed", RenameErr)
                             ELSE JobStatus("created", <<"job has been created">>)]_vars

\* C26 witness: a release was installed, a second install of it removed the
\* folder and failed at the rename; the job reads failed and the folder is
\* gone
C26_Witness ==
    \E i \in 1..Len(started) :
        /\ started[i].id \in DOMAIN result
        /\ Mapped(started[i].releaseID)
        /\ result[started[i].id].err = RenameErr
        /\ db[started[i].id].Status = "failed"
        /\ lastOk[started[i].releaseID] # ""
        /\ disk[Entries[started[i].releaseID]] = NoDir

\* C27: the scratch folder an install creates is removed by the time
\* handleJob returns, on every way out: whenever handleJob is not running,
\* there is no scratch folder.
C27_ScratchRemoved ==
    /\ ~InstallInProgress => tmp = NoDir
    /\ tmp # NoDir => wpc \in {"remove", "rename"}

\* C27 witness: handleJob has returned the rename error after an extraction
\* that filled the scratch folder, and the scratch folder is gone
C27_Witness ==
    /\ wpc = "handled"
    /\ werr = RenameErr
    /\ tmp = NoDir
    /\ \E i \in 1..Len(started) :
          started[i].id \in DOMAIN result /\ result[started[i].id].err = NoErr

\* C28 as stated: once HookHTTP.Stop was called after Start was invoked, the
\* signal on the quit channel is not lost: the goroutine of Start has taken
\* it, so that Start returns.
C28_Original ==
    srv.stops > 0 =>
        \/ srv.quit \in {"received", "shutdown", "done"}
        \/ srv.start = "returned"

\* C28, the end of it: after a call of Stop, Start returns in the end
C28_StartReturns == (srv.stops > 0) ~> (srv.start = "returned")

\* a Deploy call stored created under the id and ended without returning it
Rejected(id) ==
    /\ id \in DOMAIN db
    /\ id \notin returned
    /\ \A c \in Callers : cjob[c].id # id

\* C29: a Deploy turned away with the buffer-full error leaves the created
\* status it stored under the new id: the store keeps a created entry for an
\* id no caller got and no channel held, and that entry stays created.
C29_Step ==
    \A c \in Callers :
        (DeploySend(c) /\ cret'[c] = "buffer is full, re-try later") =>
            /\ db' = db
            /\ cjob[c].id \in DOMAIN db'
            /\ db'[cjob[c].id] = JobStatus("created", <<"job has been created">>)
            /\ cjob[c].id \notin returned'
            /\ jobs' = jobs
            /\ enqueued' = enqueued
C29_Kept ==
    \A id \in DOMAIN db :
        Rejected(id) =>
            /\ db[id] = JobStatus("created", <<"job has been created">>)
            /\ writes[id] = <<"created">>
            /\ \A i \in 1..Len(enqueued) : enqueued[i] # id
            /\ \A i \in 1..Len(jobs.buf) : jobs.buf[i].id # id
            /\ id \notin DOMAIN result
C29_CreatedNotRolledBack == []C29_Kept /\ [][C29_Step]_vars

\* C29 witness: with 50 jobs accepted, a further Deploy was turned away at the
\* full channel; the worker has since finished a job, and the id of the
\* rejected call still reads created
C29_Witness ==
    /\ cret["c1"] = "buffer is full, re-try later"
    /\ Cardinality(returned) = jobSize
    /\ result # << >>
    /\ \E id \in DOMAIN db : id > jobSize /\ Rejected(id) /\ db[id].Status = "created"

\* C30 as stated: a Deploy call made before Start has made the channel never
\* queues its job, so no job of such a call is processed after Start.
C30_Original ==
    \A i \in 1..Len(enqueued) : enqueued[i] \notin early

\* C30 amended: a Deploy call whose select runs before Start has made the
\* channel does not block and queues nothing: past the stop check and the
\* save of created it finds the nil channel and returns the buffer-full
\* error; when Start makes the channel nothing is queued, and no job of such
\* a call is taken by the worker.
C30_Step ==
    /\ \A c \in Callers :
          (cpc[c] = "send" /\ jobs.state = "nil") =>
              /\ ENABLED DeploySend(c)
              /\ DeploySend(c) =>
                    /\ cret'[c] = "buffer is full, re-try later"
                    /\ cpc'[c] = "idle"
                    /\ UNCHANGED << jobs, returned, enqueued, db >>
                    /\ \E id \in DOMAIN db : id = cjob[c].id /\ Rejected(id)'
    /\ wpc = "notStarted" =>
          /\ returned = {} /\ enqueued = <<>> /\ jobs.buf = <<>>
          /\ jobs'.buf = <<>>
    /\ \A id \in DOMAIN db :
          Rejected(id) =>
              /\ Rejected(id)'
              /\ \A i \in 1..Len(dequeued') : dequeued'[i] # id
              /\ \A i \in 1..Len(started') : started'[i].id # id
C30_DeployBeforeStart == [][C30_Step]_vars

\* C30 witness: the first Deploy ran before Start and was turned away; after
\* Start a second Deploy was accepted and its job processed, while the id of
\* the first still reads created and was never taken
C30_Witness ==
    /\ spc = "idle"
    /\ Rejected(1)
    /\ db[1].Status = "created"
    /\ 2 \in returned
    /\ 2 \in DOMAIN result
    /\ dequeued = <<2>>

\* C31: status ok is stored for a job only after its rename into the target
\* folder is done: when the worker stores ok, the target folder of the job's
\* release key holds what the job's archive has under its root; whenever a
\* job reads ok, the folder of its key holds the archive of the last install
\* renamed into it, unless a later job for that key has removed the folder
\* and not renamed yet, or has failed at its rename.
C31_Step ==
    (wpc = "handled" /\ wpc' # "handled" /\ db'[wjob.id].Status = "ok") =>
        /\ werr = NoErr
        /\ Mapped(wjob.releaseID)
        /\ disk[Entries[wjob.releaseID]] = Contents(Body(wjob.releaseURL))
        /\ lastSwap[wjob.releaseID] = wjob.releaseURL
        /\ tmp = NoDir
        /\ disk' = disk
C31_Populated ==
    \A i \in 1..Len(started) :
        (started[i].id \in DOMAIN db /\ db[started[i].id].Status = "ok") =>
            LET k == started[i].releaseID
            IN  /\ Mapped(k)
                /\ lastOk[k] # ""
                /\ (lastSwap[k] # "failed" /\ ~(wpc = "rename" /\ wjob.releaseID = k)) =>
                      disk[Entries[k]] = Contents(Body(lastSwap[k]))
C31_OkAfterRename == []C31_Populated /\ [][C31_Step]_vars

\* C31 witness: two installs for the same release key both read ok, and the
\* folder holds the archive of the later one
C31_Witness ==
    /\ Len(started) = 2
    /\ started[1].releaseID = started[2].releaseID
    /\ \A i \in 1..2 : started[i].id \in DOMAIN db /\ db[started[i].id].Status = "ok"
    /\ lastSwap[started[1].releaseID] = "uB"
    /\ disk[Entries[started[1].releaseID]] = Contents(ArchiveB)

\* C32: processing a job for a release key, whatever its outcome, leaves the
\* target folder of every other release key as it was, and leaves the stored
\* status of every other job id as it was.
C32_Step ==
    /\ \A p \in Targets :
          disk'[p] # disk[p] =>
              /\ wpc \in {"remove", "rename"}
              /\ Mapped(wjob.releaseID)
              /\ p = Entries[wjob.releaseID]
    /\ \A id \in DOMAIN db :
          /\ id \in DOMAIN db'
          /\ db'[id] # db[id] => (wpc = "handled" /\ id = wjob.id)
    /\ (wpc \in {"handle", "saveTar", "remove", "rename", "handled"}
          /\ Mapped(wjob.releaseID)) =>
              \A p \in Targets \ {Entries[wjob.releaseID]} :
                  disk[p] = before[p] /\ disk'[p] = disk[p]
====
